---- MODULE Spec2Model ----
(***************************************************************************)
(* Model of src/crawler.py (class YelpCrawler): the pagination loop of     *)
(* get_objects_list, the per-card extraction of get_object_data, the      *)
(* detail-page extraction of get_object_reviews and the text sanitizer     *)
(* sanitize_element_text.                                                  *)
(*                                                                         *)
(* Texts are sequences of one-character strings.  Python's None in a       *)
(* str-or-None slot is the value None below; a node that a selector did    *)
(* not find is NoTag.  The blocking calls requests.get(...) split the     *)
(* program at the request: one step issues it, the next step is its        *)
(* outcome (a response of any content, or an exception raised by the       *)
(* transport).                                                             *)
(***************************************************************************)
EXTENDS Integers, Sequences, FiniteSets, TLC

\* ------------------------------------------------------------------ bounds
MaxPagesBound == 2      \* max_pages ranges over None and 0..MaxPagesBound
MaxFetch == 2           \* with max_pages = None, the page counter is cut here
MaxCards == 2           \* cards on one listing page
MaxCap == 2             \* number_of_reviews ranges over 0..MaxCap
MaxItems == 3           \* <li> items in a reviews list
MaxLen == 3             \* length of a text given to the sanitizer
MaxSyms == 2            \* length of additional_symbols
MaxApply == 3           \* successive applications of the sanitizer

\* ------------------------------------------------------------------ values
None == <<"None">>
NoTag == [found |-> FALSE]
Tag(t) == [found |-> TRUE, text |-> t]
Link(t, h) == [found |-> TRUE, text |-> t, href |-> h]

Whitespace == {" ", "\t"}
PageSize == 10
SiteOrigin == <<"https://www.yelp.com">>
ErrorText == <<"We're sorry, the page of results you requested is unavailable.">>
NearMissText == ErrorText \o <<" ">>
WebsiteLabel == <<"Business website">>

\* ------------------------------------------------------------------ text
RECURSIVE LStrip(_)
LStrip(t) ==
  IF t = <<>> THEN <<>>
  ELSE IF Head(t) \in Whitespace THEN LStrip(Tail(t)) ELSE t

RECURSIVE RStrip(_)
RStrip(t) ==
  IF t = <<>> THEN <<>>
  ELSE IF t[Len(t)] \in Whitespace THEN RStrip(SubSeq(t, 1, Len(t) - 1)) ELSE t

\* str.strip()
Strip(t) == RStrip(LStrip(t))

StartsAt(t, sym, i) ==
  /\ i + Len(sym) - 1 <= Len(t)
  /\ SubSeq(t, i, i + Len(sym) - 1) = sym

RECURSIVE ReplaceFrom(_, _, _)
ReplaceFrom(t, sym, i) ==
  IF i > Len(t) THEN <<>>
  ELSE IF StartsAt(t, sym, i) THEN ReplaceFrom(t, sym, i + Len(sym))
  ELSE <<t[i]>> \o ReplaceFrom(t, sym, i + 1)

RECURSIVE ReplaceFirstFrom(_, _, _)
ReplaceFirstFrom(t, sym, i) ==
  IF i > Len(t) THEN <<>>
  ELSE IF StartsAt(t, sym, i) THEN SubSeq(t, i + Len(sym), Len(t))
  ELSE <<t[i]>> \o ReplaceFirstFrom(t, sym, i + 1)

Replace_FirstOnly(t, sym) == IF sym = <<>> THEN t ELSE ReplaceFirstFrom(t, sym, 1)

\* str.replace(symbol, ""): every non-overlapping occurrence, left to right
Replace(t, sym) == IF sym = <<>> THEN t ELSE ReplaceFrom(t, sym, 1)

RECURSIVE RemoveSymbols(_, _)
RemoveSymbols(t, syms) ==
  IF syms = <<>> THEN t ELSE RemoveSymbols(Replace(t, Head(syms)), Tail(syms))

\* YelpCrawler.sanitize_element_text
sanitize_element_text(element, additional_symbols) ==
  IF ~element.found THEN None
  ELSE RemoveSymbols(Strip(element.text), additional_symbols)

\* ------------------------------------------------------------------ inputs
\* A listing card: anchor is the node '[class*="businessName"] a' (or NoTag),
\* spans are the <span> children of 'div.css-volmcs + div.css-1jq1ouh',
\* abp tells whether the card carries the class ABP.
CardA == [abp |-> FALSE, anchor |-> Link(<<" ", "A">>, <<"/a">>),
          spans |-> << <<"4">>, <<"(", "7", ")">> >>]
CardNoName == [abp |-> FALSE, anchor |-> NoTag, spans |-> << <<" ", "(", "5", ")">> >>]
CardAd == [abp |-> TRUE, anchor |-> Link(<<"S">>, <<"/s">>), spans |-> << >>]
Cards == {CardA, CardNoName, CardAd}

SeqsUpTo(S, n) == UNION {[1..k -> S] : k \in 0..n}

\* A listing page: the texts of its <h3> headings and its cards in document order.
ListingPages ==
  [h3 : SUBSET {ErrorText, NearMissText}, cards : SeqsUpTo(Cards, MaxCards)]

StatusCodes == {200, 404}

\* A review <li>: name is 'div.user-passport-info > span > a', location is
\* 'div.user-passport-info > div > div > span'.
ItemFull == [name |-> Tag(<<"n", " ">>), location |-> Tag(<<"L">>)]
ItemNoName == [name |-> NoTag, location |-> Tag(<<"M">>)]
ItemNoLocation == [name |-> Tag(<<"o">>), location |-> NoTag]
Items == {ItemFull, ItemNoName, ItemNoLocation}

DateNode == [span |-> Tag(<<" ", "1", "/", "2">>)]
PlainNode == [span |-> NoTag]

\* A detail page: box is the texts of the <p> nodes under the parent of the
\* first <p>; list is 'div#reviews ul[class="list__09f24__ynIEd"]' with its
\* <li> descendants; liDivDiv is what 'li > div > div' selects on the page.
WebsiteBoxes ==
  { << >>, <<WebsiteLabel>>, <<WebsiteLabel, <<" ", "w">> >>,
    <<WebsiteLabel \o <<" ">>, <<"x">> >> }
ReviewLists ==
  {NoTag} \cup {[found |-> TRUE, items |-> it] : it \in SeqsUpTo(Items, MaxItems)}
LiDivDivs == { << >>, <<PlainNode>>, <<PlainNode, PlainNode>>, <<PlainNode, DateNode>> }
DetailPages == [box : WebsiteBoxes, list : ReviewLists, liDivDiv : LiDivDivs]

PageRich ==
  [box |-> <<WebsiteLabel, <<" ", "w">> >>,
   list |-> [found |-> TRUE, items |-> <<ItemFull, ItemNoName, ItemNoLocation>>],
   liDivDiv |-> <<PlainNode, DateNode>>]
PageOneP == [box |-> <<WebsiteLabel>>, list |-> NoTag, liDivDiv |-> << >>]
PageNoDate ==
  [box |-> << >>, list |-> [found |-> TRUE, items |-> <<ItemFull>>],
   liDivDiv |-> <<PlainNode>>]
\* the detail pages served in runs of the whole crawler (every page of
\* DetailPages is served under SpecReviews)
ServedPages == {PageRich, PageOneP, PageNoDate}

Alphabet == {" ", "(", ")", "4"}
SymbolAlphabet == {" ", "(", ")"}
ExampleText == <<" ", "(", "4", "2", ")", " ">>
Texts == SeqsUpTo(Alphabet, MaxLen) \cup {ExampleText}
\* the one-character symbols and one longer symbol
Symbols == {<<c>> : c \in SymbolAlphabet} \cup {<<"(", ")">>}
SymbolLists == SeqsUpTo(Symbols, MaxSyms)
Elements == {NoTag} \cup {Tag(t) : t \in Texts}

NoLimit == -1           \* max_pages = None
MaxPagesValues == {NoLimit} \cup 0..MaxPagesBound

\* ------------------------------------------------------------------ state
VARIABLES
  max_pages, number_of_reviews,   \* self.max_pages, self.number_of_reviews
  data,                           \* self.data
  pc, exc,                        \* control point; the exception that left run()
  page, offset, objects,          \* locals of get_objects_list
  business_cards, cardIdx,        \* the for loop over the cards of one page
  object_data,                    \* local of get_object_data
  soup, website, reviews, reviews_items, ridx,  \* locals of get_object_reviews
  fix_html,                       \* content of the file fix.html
  fetchLog, pageLog, detailLog,   \* history: requests issued, pages received
  discovered, visited,            \* history: cards selected, <li> items read
  sx, sS, sr                      \* sanitizer harness: element, symbols, results

vars ==
  <<max_pages, number_of_reviews, data, pc, exc, page, offset, objects,
    business_cards, cardIdx, object_data, soup, website, reviews,
    reviews_items, ridx, fix_html, fetchLog, pageLog, detailLog, discovered,
    visited, sx, sS, sr>>

config == <<max_pages, number_of_reviews>>
listingLocals == <<page, offset>>
cardLocals == <<business_cards, cardIdx>>
reviewLocals == <<soup, website, reviews, reviews_items, ridx, visited>>
harness == <<sx, sS, sr>>

NoObject == [found |-> FALSE]
NoSoup == [found |-> FALSE]

\* ------------------------------------------------------------------ helpers
PastLimit_OffByOne(p) == max_pages # NoLimit /\ p > max_pages + 1

\* line 62: self.max_pages is not None and page > self.max_pages
PastLimit(p) == max_pages # NoLimit /\ p > max_pages

FindAllH3(page_soup, string) == {h \in page_soup.h3 : h = string}

IsTerminal_Never(page_soup) == FALSE

IsTerminal_OrEmpty(page_soup) ==
  \/ FindAllH3(page_soup, ErrorText) # {}
  \/ SelectSeq(page_soup.cards, LAMBDA c : ~c.abp) = << >>

\* lines 66-68: error_tag = soup.find_all("h3", string=error_text); if error_tag
IsTerminal(page_soup) == FindAllH3(page_soup, ErrorText) # {}

\* line 71: soup.select('div[data-testid="serp-ia-card"]:not(.ABP)')
SelectCards(page_soup) == SelectSeq(page_soup.cards, LAMBDA c : ~c.abp)

AppendObject_Prepend(objs, rec) == <<rec>> \o objs

\* line 73: objects.append(...)
AppendObject(objs, rec) == Append(objs, rec)

\* lines 93-96: the three select_one calls on a card
NameElement(card) == card.anchor
RatingElement(card) == IF card.spans = << >> THEN NoTag ELSE Tag(card.spans[1])
ReviewCountElement(card) ==
  IF card.spans = << >> THEN NoTag ELSE Tag(card.spans[Len(card.spans)])

\* name_element.get('href')
GetHref(element) == IF "href" \in DOMAIN element THEN element.href ELSE None

YelpUrl_Always(name_element) ==
  SiteOrigin \o (IF name_element.found THEN GetHref(name_element) ELSE None)

\* line 102: f"https://www.yelp.com{name_element.get('href')}" if name_element else None
YelpUrl(name_element) ==
  IF name_element.found THEN SiteOrigin \o GetHref(name_element) ELSE None

\* lines 98-104: the dict built by get_object_data
ObjectData(card) ==
  [name |-> sanitize_element_text(NameElement(card), << >>),
   rating |-> sanitize_element_text(RatingElement(card), << >>),
   reviews_count |->
     sanitize_element_text(ReviewCountElement(card), << <<"(">>, <<")">> >>),
   yelp_url |-> YelpUrl(NameElement(card)),
   reviews |-> << >>]

HasDetailUrl_Always(od) == TRUE

\* line 107: if object_data['yelp_url']
HasDetailUrl(od) == od.yelp_url # None /\ od.yelp_url # << >>

\* line 108: object_data['reviews'], object_data['website'] = ...
Enrich(od, revs, site) ==
  [k \in DOMAIN od \cup {"website"} |->
     IF k = "website" THEN site ELSE IF k = "reviews" THEN revs ELSE od[k]]

\* lines 111-113: the debug write of get_object_data
DebugWrite(card, old) == IF ~NameElement(card).found THEN card ELSE old

CapReached_OffByOne(items) == Len(items) > number_of_reviews

\* line 139: len(reviews_items) >= self.number_of_reviews
CapReached(items) == Len(items) >= number_of_reviews

\* line 127: soup.find_all("p", string="Business website")
FindWebsiteLabel(detail_soup) == SelectSeq(detail_soup.box, LAMBDA t : t = WebsiteLabel)

\* lines 142-154: one review record; nodes is soup.select('li > div > div')
ReviewData(review, nodes) ==
  [reviewer_name |-> sanitize_element_text(review.name, << >>),
   reviewer_location |-> sanitize_element_text(review.location, << >>),
   review_date |-> sanitize_element_text(nodes[2].span, << >>)]

\* ------------------------------------------------------------------ Init
\* lines 31-37, with max_pages set by the caller; whole runs are explored
\* under the largest cap, every cap in 0..MaxCap under SpecReviews below
Init ==
  /\ max_pages \in MaxPagesValues
  /\ number_of_reviews = MaxCap
  /\ data = << >>
  /\ pc = "idle" /\ exc = "none"
  /\ page = 0 /\ offset = 0 /\ objects = << >>
  /\ business_cards = << >> /\ cardIdx = 0
  /\ object_data = NoObject
  /\ soup = NoSoup /\ website = None /\ reviews = << >>
  /\ reviews_items = << >> /\ ridx = 0
  /\ fix_html = None
  /\ fetchLog = << >> /\ pageLog = << >> /\ detailLog = << >>
  /\ discovered = << >> /\ visited = << >>
  /\ sx = NoTag /\ sS = << >> /\ sr = << >>

\* ------------------------------------------------------------------ actions
\* lines 39-48 and 56-58: run() enters get_objects_list
Run ==
  /\ pc = "idle"
  /\ pc' = "loop"
  /\ page' = 0 /\ objects' = << >>
  /\ UNCHANGED <<config, data, exc, offset, cardLocals, object_data,
                 reviewLocals, fix_html, fetchLog, pageLog, detailLog,
                 discovered, harness>>

\* lines 59-64: top of the while loop up to the listing request; the break
\* at line 63 returns objects (line 75) and run() stores it (lines 48-49)
LoopHead ==
  /\ pc = "loop"
  /\ max_pages = NoLimit => page < MaxFetch
  /\ offset' = page * PageSize
  /\ page' = page + 1
  /\ IF PastLimit(page')
       THEN /\ pc' = "done"
            /\ data' = objects
            /\ UNCHANGED fetchLog
       ELSE /\ pc' = "listing"
            /\ fetchLog' = Append(fetchLog, offset')
            /\ UNCHANGED data
  /\ UNCHANGED <<config, exc, objects, cardLocals, object_data, reviewLocals,
                 fix_html, pageLog, detailLog, discovered, harness>>

\* line 64: requests.get raises (connection error, timeout); nothing catches it
ListingRaise ==
  /\ pc = "listing"
  /\ pc' = "raised" /\ exc' = "ConnectionError"
  /\ UNCHANGED <<config, data, listingLocals, objects, cardLocals, object_data,
                 reviewLocals, fix_html, fetchLog, pageLog, detailLog,
                 discovered, harness>>

\* lines 64-71: a response of any status; its content is parsed whatever the status
ListingResponse ==
  /\ pc = "listing"
  /\ \E status \in StatusCodes, page_soup \in ListingPages :
       /\ pageLog' = Append(pageLog, [sentinel |-> ErrorText \in page_soup.h3,
                                      n |-> Len(SelectCards(page_soup))])
       /\ IF IsTerminal(page_soup)
            THEN /\ pc' = "done"
                 /\ data' = objects
                 /\ UNCHANGED <<cardLocals, discovered>>
            ELSE /\ pc' = "cards"
                 /\ business_cards' = SelectCards(page_soup)
                 /\ cardIdx' = 1
                 /\ discovered' = discovered \o SelectCards(page_soup)
                 /\ UNCHANGED data
  /\ UNCHANGED <<config, exc, listingLocals, objects, object_data, reviewLocals,
                 fix_html, fetchLog, detailLog, harness>>

\* line 72: the for loop is exhausted, back to the top of the while loop
CardsExhausted ==
  /\ pc = "cards"
  /\ cardIdx > Len(business_cards)
  /\ pc' = "loop"
  /\ business_cards' = << >> /\ cardIdx' = 0
  /\ UNCHANGED <<config, data, exc, listingLocals, objects, object_data,
                 reviewLocals, fix_html, fetchLog, pageLog, detailLog,
                 discovered, harness>>

\* lines 72-73, 89-115: get_object_data on the next card; it either issues the
\* detail request (lines 107-108, 123) or finishes without one
GetObjectData ==
  /\ pc = "cards"
  /\ cardIdx <= Len(business_cards)
  /\ LET card == business_cards[cardIdx]
         od == ObjectData(card)
     IN IF HasDetailUrl(od)
          THEN /\ pc' = "detail"
               /\ object_data' = od
               /\ detailLog' = Append(detailLog, od.yelp_url)
               /\ UNCHANGED <<objects, cardIdx, fix_html>>
          ELSE /\ fix_html' = DebugWrite(card, fix_html)
               /\ objects' = AppendObject(objects, od)
               /\ cardIdx' = cardIdx + 1
               /\ UNCHANGED <<pc, object_data, detailLog>>
  /\ UNCHANGED <<config, data, exc, listingLocals, business_cards,
                 reviewLocals, fetchLog, pageLog, discovered, harness>>

\* line 123: requests.get raises; nothing catches it
DetailRaise ==
  /\ pc = "detail"
  /\ pc' = "raised" /\ exc' = "ConnectionError"
  /\ UNCHANGED <<config, data, listingLocals, objects, cardLocals, object_data,
                 reviewLocals, fix_html, fetchLog, pageLog, detailLog,
                 discovered, harness>>

\* lines 123-137: the response, the website lookup, the reviews container
DetailResponseFrom(pages) ==
  /\ pc = "detail"
  /\ \E status \in StatusCodes, detail_soup \in pages :
       LET website_element == FindWebsiteLabel(detail_soup)
       IN IF website_element # << >> /\ Len(detail_soup.box) < 2
            THEN \* line 129: find_all('p')[1] on a one-element list
                 /\ pc' = "raised" /\ exc' = "IndexError"
                 /\ UNCHANGED reviewLocals
            ELSE /\ website' = IF website_element # << >>
                                 THEN sanitize_element_text(Tag(detail_soup.box[2]), << >>)
                                 ELSE None
                 /\ soup' = detail_soup
                 /\ reviews_items' = << >>
                 /\ visited' = << >>
                 /\ UNCHANGED exc
                 /\ IF ~detail_soup.list.found
                      THEN /\ pc' = "returned"
                           /\ reviews' = << >> /\ ridx' = 0
                      ELSE /\ pc' = "reviews"
                           /\ reviews' = detail_soup.list.items /\ ridx' = 1
  /\ UNCHANGED <<config, data, listingLocals, objects, cardLocals, object_data,
                 fix_html, fetchLog, pageLog, detailLog, discovered, harness>>

DetailResponse == DetailResponseFrom(ServedPages)

\* lines 138-157: one pass of the for loop over the <li> items
ReviewLoop ==
  /\ pc = "reviews"
  /\ IF ridx > Len(reviews) \/ CapReached(reviews_items)
       THEN /\ pc' = "returned"
            /\ UNCHANGED <<exc, reviews_items, ridx, visited>>
       ELSE /\ visited' = Append(visited, ridx)
            /\ IF Len(soup.liDivDiv) < 2
                 THEN \* line 144: soup.select('li > div > div')[1]
                      /\ pc' = "raised" /\ exc' = "IndexError"
                      /\ UNCHANGED <<reviews_items, ridx>>
                 ELSE /\ reviews_items' =
                           Append(reviews_items, ReviewData(reviews[ridx], soup.liDivDiv))
                      /\ ridx' = ridx + 1
                      /\ UNCHANGED <<pc, exc>>
  /\ UNCHANGED <<config, data, listingLocals, objects, cardLocals, object_data,
                 soup, website, reviews, fix_html, fetchLog, pageLog, detailLog,
                 discovered, harness>>

\* lines 108-115 and 73: get_object_reviews has returned; merge, debug write,
\* return object_data, append it
FinishObjectData ==
  /\ pc = "returned"
  /\ pc' = "cards"
  /\ objects' = AppendObject(objects, Enrich(object_data, reviews_items, website))
  /\ fix_html' = DebugWrite(business_cards[cardIdx], fix_html)
  /\ cardIdx' = cardIdx + 1
  /\ object_data' = NoObject
  /\ soup' = NoSoup /\ website' = None /\ reviews' = << >>
  /\ reviews_items' = << >> /\ ridx' = 0 /\ visited' = << >>
  /\ UNCHANGED <<config, data, exc, listingLocals, business_cards, fetchLog,
                 pageLog, detailLog, discovered, harness>>

Next ==
  \/ Run
  \/ LoopHead
  \/ ListingRaise
  \/ ListingResponse
  \/ CardsExhausted
  \/ GetObjectData
  \/ DetailRaise
  \/ DetailResponse
  \/ ReviewLoop
  \/ FinishObjectData

Spec == Init /\ [][Next]_vars

\* --------------------------------------------- get_object_reviews on any page
\* The crawler has just issued the detail request for the first card of the
\* first listing page (line 123); the response is any detail page.
InitReviews ==
  /\ max_pages \in MaxPagesValues \ {0}
  /\ number_of_reviews \in 0..MaxCap
  /\ data = << >>
  /\ pc = "detail" /\ exc = "none"
  /\ page = 1 /\ offset = 0 /\ objects = << >>
  /\ business_cards = <<CardA>>
  /\ discovered = <<CardA>>
  /\ object_data = ObjectData(CardA)
  /\ detailLog = <<ObjectData(CardA).yelp_url>>
  /\ cardIdx = 1
  /\ soup = NoSoup /\ website = None /\ reviews = << >>
  /\ reviews_items = << >> /\ ridx = 0
  /\ fix_html = None
  /\ fetchLog = <<0>> /\ pageLog = <<[sentinel |-> FALSE, n |-> 1]>>
  /\ visited = << >>
  /\ sx = NoTag /\ sS = << >> /\ sr = << >>

DetailResponseAny == DetailResponseFrom(DetailPages)

NextReviews ==
  \/ DetailResponseAny
  \/ ReviewLoop
  \/ FinishObjectData

SpecReviews == InitReviews /\ [][NextReviews]_vars

\* --------------------------------------------- sanitize_element_text alone
AsElement(result) == IF result = None THEN NoTag ELSE Tag(result)

InitSanitize ==
  /\ max_pages = NoLimit
  /\ number_of_reviews = 0
  /\ data = << >>
  /\ pc = "idle" /\ exc = "none"
  /\ page = 0 /\ offset = 0 /\ objects = << >>
  /\ business_cards = << >> /\ cardIdx = 0
  /\ object_data = NoObject
  /\ soup = NoSoup /\ website = None /\ reviews = << >>
  /\ reviews_items = << >> /\ ridx = 0
  /\ fix_html = None
  /\ fetchLog = << >> /\ pageLog = << >> /\ detailLog = << >>
  /\ discovered = << >> /\ visited = << >>
  /\ sx \in Elements /\ sS \in SymbolLists /\ sr = << >>

\* sanitize_element_text applied to the element, then to its own result
SanitizeApply ==
  /\ Len(sr) < MaxApply
  /\ sr' = Append(sr, sanitize_element_text(
                        IF sr = << >> THEN sx ELSE AsElement(sr[Len(sr)]), sS))
  /\ UNCHANGED <<config, data, pc, exc, listingLocals, objects, cardLocals,
                 object_data, reviewLocals, fix_html, fetchLog, pageLog,
                 detailLog, discovered, sx, sS>>

NextSanitize == SanitizeApply

SpecSanitize == InitSanitize /\ [][NextSanitize]_vars

\* ------------------------------------------------------------------ claims
RECURSIVE SumCards(_, _)
SumCards(log, k) == IF k = 0 THEN 0 ELSE log[k].n + SumCards(log, k - 1)

WithUrl(objs) == {j \in 1..Len(objs) : objs[j].yelp_url # None}
NamelessCards == {j \in 1..Len(discovered) : ~discovered[j].anchor.found}
InDetail == pc \in {"detail", "reviews", "returned"}
Min(a, b) == IF a <= b THEN a ELSE b
ExpectedText(element) == IF element.found THEN Strip(element.text) ELSE None

\* C1: with max_pages = k, at most k listing requests are issued; the i-th
\* request (counting from 0) carries start = 10*i, so no request carries a
\* start of 10*k or more.
C1_FetchBound ==
  /\ \A i \in 1..Len(fetchLog) : fetchLog[i] = 10 * (i - 1)
  /\ max_pages # NoLimit =>
       /\ Len(fetchLog) <= max_pages
       /\ \A i \in 1..Len(fetchLog) : fetchLog[i] < 10 * max_pages

C1_Witness ==
  /\ pc = "done" /\ max_pages = 2
  /\ fetchLog = <<0, 10>>
  /\ ~pageLog[2].sentinel

\* C2: when listing page i carries the sentinel heading, the run is over at
\* once: page i is the last page requested, none of its cards is extracted,
\* no detail request is issued for it, and the result is the records of the
\* pages before i.
C2_TerminalStops ==
  \A i \in 1..Len(pageLog) :
    pageLog[i].sentinel =>
      /\ i = Len(pageLog) /\ Len(fetchLog) = i
      /\ pc = "done"
      /\ Len(discovered) = SumCards(pageLog, i - 1)
      /\ Len(objects) = Len(discovered)
      /\ Len(detailLog) = Cardinality(WithUrl(objects))
      /\ data = objects

C2_Witness ==
  /\ Len(pageLog) = 2
  /\ pageLog[2].sentinel /\ pageLog[2].n > 0
  /\ Len(data) > 0

C4_TransportFailureNeverAborts == ~(pc = "raised" /\ exc = "ConnectionError")

\* C5 as stated: a locator that finds nothing never makes extraction raise.
C5_MissingNodeNeverRaises == ~(pc = "raised" /\ exc = "IndexError")

\* C6: every record holds at most number_of_reviews reviews; when
\* get_object_reviews returns for a list of n items, it returns the records of
\* the first min(n, number_of_reviews) items in document order, and it has
\* read no item beyond them.
C6_ReviewCap ==
  /\ \A j \in 1..Len(objects) : Len(objects[j].reviews) <= number_of_reviews
  /\ Len(reviews_items) <= number_of_reviews
  /\ \A j \in 1..Len(visited) : visited[j] = j /\ j <= number_of_reviews
  /\ pc = "returned" =>
       LET m == Min(Len(reviews), number_of_reviews)
       IN /\ Len(reviews_items) = m
          /\ Len(visited) = m
          /\ \A j \in 1..m :
               /\ reviews_items[j].reviewer_name = ExpectedText(reviews[j].name)
               /\ reviews_items[j].reviewer_location =
                    ExpectedText(reviews[j].location)

C6_Witness ==
  /\ pc = "returned"
  /\ number_of_reviews = 2 /\ Len(reviews) = 3
  /\ Len(reviews_items) = 2
  /\ reviews[1] # reviews[2]

\* C7: a record without a detail URL has no reviews and no website, and no
\* detail request is issued for it; one detail request is issued per card with
\* a detail URL, so a finished run has issued as many detail requests as its
\* result has records with a detail URL.
C7_DetailFetchIffUrl ==
  /\ \A j \in 1..Len(objects) :
       objects[j].yelp_url = None =>
         /\ objects[j].reviews = << >>
         /\ "website" \notin DOMAIN objects[j]
  /\ \A i \in 1..Len(detailLog) : detailLog[i] # None
  /\ pc # "raised" =>
       Len(detailLog) = Cardinality(WithUrl(objects)) + (IF InDetail THEN 1 ELSE 0)
  /\ pc = "done" => Len(detailLog) = Cardinality(WithUrl(data))

C7_Witness ==
  /\ pc = "done"
  /\ \E j \in 1..Len(data) : data[j].yelp_url = None
  /\ \E j \in 1..Len(data) : data[j].yelp_url # None /\ data[j].website # None

\* C8: a card without the name link gives a record with name and detail URL
\* absent, which is appended to the result; the card's markup is what fix.html
\* holds; the cards after it, on its page and on later pages, are processed.
C8_NamelessCard ==
  /\ \A j \in 1..Len(objects) :
       j \in NamelessCards => objects[j].name = None /\ objects[j].yelp_url = None
  /\ LET done == {j \in NamelessCards : j <= Len(objects)}
     IN fix_html = IF done = {} THEN None
                   ELSE discovered[CHOOSE j \in done : \A k \in done : k <= j]
  /\ pc \in {"loop", "listing", "done"} => Len(objects) = Len(discovered)

C8_Witness ==
  /\ pc = "done"
  /\ Len(pageLog) >= 2
  /\ 1 \in NamelessCards
  /\ Len(data) >= 3
  /\ data[2].name # None

\* C9: the result keeps discovery order (page by page, card by card); a record
\* is appended only after its own detail request has completed, a listing
\* request is issued only after every card of the page before has been
\* appended, and at most one request is outstanding.
C9_DiscoveryOrder ==
  /\ Len(objects) <= Len(discovered)
  /\ \A j \in 1..Len(objects) :
       /\ objects[j].name = ExpectedText(discovered[j].anchor)
       /\ objects[j].yelp_url # None =>
            objects[j].yelp_url = SiteOrigin \o discovered[j].anchor.href
  /\ pc = "listing" => Len(objects) = Len(discovered)
  /\ InDetail =>
       /\ Len(objects) = Len(discovered) - Len(business_cards) + cardIdx - 1
       /\ Len(fetchLog) = Len(pageLog)
  /\ Len(fetchLog) - Len(pageLog) \in {0, 1}
  /\ Len(fetchLog) > Len(pageLog) =>
       Len(detailLog) = Cardinality(WithUrl(objects))

C9_Witness ==
  /\ pc = "done"
  /\ Len(pageLog) >= 2
  /\ Len(data) = 3
  /\ data[1].name # data[2].name /\ data[2].name # data[3].name
  /\ data[1].yelp_url # None /\ data[3].yelp_url # None

\* C10 as stated: applying the sanitizer to its own result changes nothing.
C10_Original == Len(sr) >= 2 => sr[2] = sr[1]

SingleCharSymbols == \A i \in 1..Len(sS) : Len(sS[i]) = 1

\* C10 amended: the sanitizer maps an absent element to None and " (42) " with
\* the symbols "(" and ")" to "42"; it is idempotent when there are no
\* symbols; with one-character symbols a second application only strips the
\* whitespace the first one exposed at the ends, and a third changes nothing.
C10_StableAfterStrip ==
  /\ ~sx.found => \A i \in 1..Len(sr) : sr[i] = None
  /\ (sx = Tag(ExampleText) /\ sS = << <<"(">>, <<")">> >> /\ Len(sr) >= 1) =>
       sr[1] = <<"4", "2">>
  /\ (sS = << >> /\ Len(sr) >= 2) => sr[2] = sr[1]
  /\ (sx.found /\ SingleCharSymbols /\ Len(sr) >= 2) => sr[2] = Strip(sr[1])
  /\ (SingleCharSymbols /\ Len(sr) >= 3) => sr[3] = sr[2]

C10_Witness ==
  /\ Len(sr) = 3
  /\ sS = << <<"(">>, <<")">> >>
  /\ sr[2] # sr[1]
  /\ sr[3] = sr[2]

====
